---- MODULE Spec2Model ----
\* Conway's Game of Life terminal widget (src/src/gameoflife.rs): the
\* application loop App::run, the GameOfLifeWidget grid store and its
\* evolution step.
EXTENDS Integers, Sequences, FiniteSets, TLC

\* ------------------------------------------------------------------ bounds
\* Largest viewport area (width * height) the terminal hands to the application.
MaxCells == 4
\* Largest frames-per-second setting (Args.fps) explored.
MaxFps == 2
\* Largest grid area (width * height) on which the evolution step alone is explored.
StepCells == 9
\* Largest width and height of the grids on which the evolution of single
\* patterns (a blinker, a block) is explored.
MaxSide == 6

\* ------------------------------------------------------------ Option<T>
None == <<>>
Some(v) == <<v>>
IsSome(o) == o # None
Unwrap(o) == o[1]

\* ------------------------------------------------------------- GridCell
Dead == "Dead"
Alive == "Alive"
GridCell == {Dead, Alive}

Continue == "continue"

\* GridCell::into
Into(c) == IF c = Dead THEN 0 ELSE 1

\* slice::get_unchecked with a 0-based index (defined only inside the slice)
GetUnchecked(v, i) == v[i + 1]

\* -------------------------------------------------------------- state
VARIABLES
    state,      \* App.state: "Running" or "Quit"
    fps,        \* App.args.fps, an f64, as <<whole, frac>> (see FpsValues)
    grid,       \* GameOfLifeWidget.grid: None or Some(<<grid, cached>>)
    diff,       \* GameOfLifeWidget.diff: None or Some(n)
    pc,         \* position of App::run: "draw", "events", "done", "panicked"
    size,       \* <<width, height>> passed to the latest calculate_game
    genSize,    \* <<width, height>> passed to the latest generate_game
    outcome,    \* what the latest calculate_game did
    shown,      \* what the latest print_diff displayed: None or Some(n)
    stepped,    \* an evolution step completed since the widget was created
    run,        \* how many of the latest operations, up to 2, repeat one another
    area,       \* <<width, height>> of the widget area of the latest frame
    sameArea,   \* the latest frame had the widget area of the frame before it
    last        \* the operation that produced this state; "speed" is a
                \* handle_events that changed fps

vars == <<state, fps, grid, diff, pc, size, genSize, outcome, shown, stepped, run,
          area, sameArea, last>>

\* ------------------------------------------------- evolution step, per cell
\* x, y: 0-based column and row; len: row.len(); cached: the scratch buffer
up(cached, x, y, width, height, len) ==
    IF y = 0 THEN Dead ELSE GetUnchecked(cached, (y - 1) * len + x)

upleft(cached, x, y, width, height, len) ==
    IF y = 0 \/ x = 0 THEN Dead ELSE GetUnchecked(cached, (y - 1) * len + x - 1)

\* upright without the test for the last column.
uprightNoColumnTest(cached, x, y, width, height, len) ==
    IF y = 0 THEN Dead ELSE GetUnchecked(cached, (y - 1) * len + x + 1)

upright(cached, x, y, width, height, len) ==
    IF y = 0 \/ x = width - 1 THEN Dead ELSE GetUnchecked(cached, (y - 1) * len + x + 1)

\* down reading the cell's own row instead of the row below.
downSameRow(cached, x, y, width, height, len) ==
    IF y = height - 1 THEN Dead ELSE GetUnchecked(cached, y * len + x)

down(cached, x, y, width, height, len) ==
    IF y = height - 1 THEN Dead ELSE GetUnchecked(cached, (y + 1) * len + x)

downleft(cached, x, y, width, height, len) ==
    IF y = height - 1 \/ x = 0 THEN Dead ELSE GetUnchecked(cached, (y + 1) * len + x - 1)

downright(cached, x, y, width, height, len) ==
    IF y = height - 1 \/ x = width - 1 THEN Dead ELSE GetUnchecked(cached, (y + 1) * len + x + 1)

left(cached, x, y, width, height, len) ==
    IF x = 0 THEN Dead ELSE GetUnchecked(cached, y * len + x - 1)

right(cached, x, y, width, height, len) ==
    IF x = width - 1 THEN Dead ELSE GetUnchecked(cached, y * len + x + 1)

neighbors(cached, x, y, width, height, len) ==
      Into(up(cached, x, y, width, height, len))
    + Into(down(cached, x, y, width, height, len))
    + Into(right(cached, x, y, width, height, len))
    + Into(left(cached, x, y, width, height, len))
    + Into(upleft(cached, x, y, width, height, len))
    + Into(upright(cached, x, y, width, height, len))
    + Into(downleft(cached, x, y, width, height, len))
    + Into(downright(cached, x, y, width, height, len))

\* MatchArm with the survival arm written (2, Alive) instead of (2 | 3, Alive).
MatchArmSurviveOnTwo(n, c) ==
    IF n < 2 /\ c = Dead THEN Continue
    ELSE IF n < 2 /\ c = Alive THEN Dead
    ELSE IF n = 2 /\ c = Alive THEN Continue
    ELSE IF n >= 3 /\ c = Alive THEN Dead
    ELSE IF n = 3 /\ c = Dead THEN Alive
    ELSE Continue

\* The match on (neighbors, cached): the value assigned to *cell, or
\* "continue" when the arm leaves the cell and the diff counter alone.
\* Arms are tried in the order of the source.
MatchArm(n, c) ==
    IF n < 2 /\ c = Dead THEN Continue
    ELSE IF n < 2 /\ c = Alive THEN Dead
    ELSE IF (n = 2 \/ n = 3) /\ c = Alive THEN Continue
    ELSE IF n >= 4 /\ c = Alive THEN Dead
    ELSE IF n = 3 /\ c = Dead THEN Alive
    ELSE Continue

\* The arm taken for the cell at 0-based flat position p of the grid.
ArmAt(cached, p, width, height) ==
    LET y == p \div width
        x == p % width
    IN MatchArm(neighbors(cached, x, y, width, height, width),
                GetUnchecked(cached, y * width + x))

\* Positions visited by grid.chunks_exact_mut(width): whole rows only.
Visited(g, width) == 0..((Len(g) \div width) * width - 1)

\* The loop with the lookups made in the buffer being written, not in cached.
RECURSIVE LoopInPlace(_, _, _, _, _, _)
LoopInPlace(g, cached, d, p, width, height) ==
    IF p \notin Visited(g, width)
    THEN <<g, d>>
    ELSE LET arm == ArmAt(g, p, width, height)
         IN IF arm = Continue
            THEN LoopInPlace(g, cached, d, p + 1, width, height)
            ELSE LoopInPlace([g EXCEPT ![p + 1] = arm], cached, d + 1, p + 1, width, height)

\* The loop over rows and cells from the 0-based flat position p on, in the
\* order of the source (row by row, left to right): g is the grid as written
\* so far, d the diff counter so far; every lookup is made in cached.
\* The result is <<grid, diff>> after the last cell.
RECURSIVE Loop(_, _, _, _, _, _)
Loop(g, cached, d, p, width, height) ==
    IF p \notin Visited(g, width)
    THEN <<g, d>>
    ELSE LET arm == ArmAt(cached, p, width, height)
         IN IF arm = Continue
            THEN Loop(g, cached, d, p + 1, width, height)
            ELSE Loop([g EXCEPT ![p + 1] = arm], cached, d + 1, p + 1, width, height)

\* The grid after the loop over all rows and cells.
EvolvedGrid(g, cached, width, height) == Loop(g, cached, 0, 0, width, height)[1]

\* DiffCount with the increment placed before the match: every visited cell counts.
DiffCountEveryCell(g, cached, width, height) ==
    Cardinality(Visited(g, width))

\* The local diff counter after the loop: one increment per assigned cell.
DiffCount(g, cached, width, height) == Loop(g, cached, 0, 0, width, height)[2]

\* Every index handed to get_unchecked on the scratch buffer during the loop.
UncheckedIndexes(g, width, height) ==
    UNION {
        LET y == p \div width
            x == p % width
            len == width
        IN    {y * len + x}
           \cup (IF y = 0 THEN {} ELSE {(y - 1) * len + x})
           \cup (IF y = 0 \/ x = 0 THEN {} ELSE {(y - 1) * len + x - 1})
           \cup (IF y = 0 \/ x = width - 1 THEN {} ELSE {(y - 1) * len + x + 1})
           \cup (IF y = height - 1 THEN {} ELSE {(y + 1) * len + x})
           \cup (IF y = height - 1 \/ x = 0 THEN {} ELSE {(y + 1) * len + x - 1})
           \cup (IF y = height - 1 \/ x = width - 1 THEN {} ELSE {(y + 1) * len + x + 1})
           \cup (IF x = 0 THEN {} ELSE {y * len + x - 1})
           \cup (IF x = width - 1 THEN {} ELSE {y * len + x + 1})
        : p \in Visited(g, width)}

\* ------------------------------------------------------ GameOfLifeWidget
\* GameOfLifeWidget::default()
DefaultWidget == [grid |-> None, diff |-> None]

\* The values rand::random() can deliver to one generate_game call.
RandomGrids(width, height) == [1..(height * width) -> GridCell]

\* generate_game: the new value of self.grid; rand is the random cell sequence.
generate_game(width, height, rand) == Some(<<rand, rand>>)

\* NeedsGenerate without the comparison of the length.
NeedsGenerateOnlyNone(g, width, height) == g = None

\* NeedsGenerate comparing the length with the width alone.
NeedsGenerateWidthOnly(g, width, height) ==
    \/ g = None
    \/ IsSome(g) /\ Len(Unwrap(g)[1]) # width

\* The condition under which calculate_game regenerates the grid.
NeedsGenerate(g, width, height) ==
    \/ g = None
    \/ IsSome(g) /\ Len(Unwrap(g)[1]) # height * width

\* calculate_game on the widget self = [grid, diff] with size = (width, height).
\* The result carries the widget's fields and what the call did:
\*   "generated"  generate_game ran and the call returned
\*   "evolved"    the evolution step ran to the end
\*   "panicked"   copy_from_slice or chunks_exact_mut panicked
\*   "undefined"  get_unchecked was handed an index outside the buffer
\* The part of calculate_game after the sizing check: the evolution step.
evolve(self, width, height) ==
    LET g == Unwrap(self.grid)[1]
        old == Unwrap(self.grid)[2]
    IN IF Len(old) # Len(g)
       THEN [grid |-> self.grid, diff |-> self.diff, outcome |-> "panicked"]
       ELSE IF width = 0
       THEN [grid |-> Some(<<g, g>>), diff |-> self.diff, outcome |-> "panicked"]
       ELSE IF \E i \in UncheckedIndexes(g, width, height) : i >= Len(g)
       THEN [grid |-> Some(<<g, g>>), diff |-> self.diff, outcome |-> "undefined"]
       ELSE [grid |-> Some(<<EvolvedGrid(g, g, width, height), g>>),
             diff |-> Some(DiffCount(g, g, width, height)),
             outcome |-> "evolved"]

\* calculate_game without the return after generate_game.
calculate_gameNoReturn(self, width, height, rand) ==
    IF NeedsGenerate(self.grid, width, height)
    THEN evolve([grid |-> generate_game(width, height, rand), diff |-> self.diff],
                width, height)
    ELSE evolve(self, width, height)

calculate_game(self, width, height, rand) ==
    IF NeedsGenerate(self.grid, width, height)
    THEN [grid |-> generate_game(width, height, rand), diff |-> self.diff,
          outcome |-> "generated"]
    ELSE evolve(self, width, height)

\* print_diff reading self.diff without take().
print_diffKeep(self) == [grid |-> self.grid, diff |-> self.diff, shown |-> self.diff]

\* print_diff: self.diff.take(); the text is rendered only for Some(diff).
print_diff(self) == [grid |-> self.grid, diff |-> None, shown |-> self.diff]

\* The random inputs a calculate_game call can consume in the current state.
RandFor(g, width, height) ==
    IF NeedsGenerate(g, width, height) THEN RandomGrids(width, height) ELSE {<<>>}

\* Any pair of buffers an out-of-bounds read may leave behind.
AnyGridLike(g) ==
    {Some(<<a, b>>) : a \in [1..Len(Unwrap(g)[1]) -> GridCell],
                      b \in [1..Len(Unwrap(g)[2]) -> GridCell]}

Self == [grid |-> grid, diff |-> diff]

\* run after calculate_game(width, height): 0 when the call found no grid of
\* length width * height, 2 when it repeats such a call with the same
\* viewport and no operation in between, otherwise 1.
RunAfter(width, height) ==
    IF grid = None \/ Len(Unwrap(grid)[1]) # width * height THEN 0
    ELSE IF last = "calculate_game" /\ size = <<width, height>> /\ run >= 1 THEN 2
    ELSE 1

\* The widget areas a frame can have: Rect.width and Rect.height, zero included.
Viewports == {v \in (0..MaxCells) \X (0..MaxCells) : v[1] * v[2] <= MaxCells}

\* PaintIndex with the two offsets exchanged.
PaintIndexColumnMajor(xi, yi, length) == xi * length + yi

\* The index of grid painted at column offset xi and row offset yi of the
\* area; length is sides.len(), the width of the area.
PaintIndex(xi, yi, length) == yi * length + xi

\* Indexes of grid read by the painting loop of GameOfLifeWidget::render.
PaintIndexes(width, height) ==
    {PaintIndex(xi, yi, width) : xi \in 0..(width - 1), yi \in 0..(height - 1)}

\* ------------------------------------------------ the widget's operations
\* One call of calculate_game with the viewport (width, height).
CalculateGame(width, height) ==
    /\ pc = "draw"
    /\ \E rand \in RandFor(grid, width, height) :
         LET r == calculate_game(Self, width, height, rand)
         IN /\ IF r.outcome = "undefined"
               THEN grid' \in AnyGridLike(r.grid)
               ELSE grid' = r.grid
            /\ diff' = r.diff
            /\ outcome' = r.outcome
            /\ pc' = IF r.outcome = "panicked" THEN "panicked" ELSE pc
            /\ genSize' = IF r.outcome = "generated" THEN <<width, height>> ELSE genSize
            /\ stepped' = (stepped \/ r.outcome = "evolved")
    /\ size' = <<width, height>>
    /\ run' = RunAfter(width, height)
    /\ last' = "calculate_game"
    /\ UNCHANGED <<state, fps, shown, area, sameArea>>

\* One call of print_diff.
PrintDiff ==
    /\ pc = "draw"
    /\ diff' = print_diff(Self).diff
    /\ shown' = print_diff(Self).shown
    /\ run' = (IF last = "print_diff" THEN 2 ELSE 1)
    /\ last' = "print_diff"
    /\ UNCHANGED <<state, fps, grid, pc, size, genSize, outcome, stepped, area, sameArea>>

\* The widget is replaced by GameOfLifeWidget::default().
Restart ==
    /\ pc = "draw"
    /\ grid' = DefaultWidget.grid
    /\ diff' = DefaultWidget.diff
    /\ size' = None
    /\ genSize' = None
    /\ outcome' = "none"
    /\ shown' = None
    /\ stepped' = FALSE
    /\ run' = 0
    /\ last' = "default"
    /\ UNCHANGED <<state, fps, pc, area, sameArea>>

\* ------------------------------------------------------------------ App
\* is_running evaluating to true whatever the state.
is_runningAlways == TRUE

\* is_running
is_running == state = "Running"

\* One iteration's terminal.draw: render of &mut App with the widget area
\* (width, height): game_of_life.render, then game_of_life.print_diff.
Render(width, height) ==
    /\ pc = "draw"
    /\ \E rand \in RandFor(grid, width, height) :
         LET r == calculate_game(Self, width, height, rand)
             painted == IsSome(r.grid) =>
                           \A i \in PaintIndexes(width, height) : i < Len(Unwrap(r.grid)[1])
             ok == r.outcome # "panicked" /\ painted
             p == print_diff(r)
         IN /\ IF r.outcome = "undefined"
               THEN grid' \in AnyGridLike(r.grid)
               ELSE grid' = r.grid
            /\ diff' = IF ok THEN p.diff ELSE r.diff
            /\ shown' = IF ok THEN p.shown ELSE shown
            /\ outcome' = r.outcome
            /\ pc' = IF ok THEN "events" ELSE "panicked"
            /\ genSize' = IF r.outcome = "generated" THEN <<width, height>> ELSE genSize
            /\ stepped' = (stepped \/ r.outcome = "evolved")
    /\ size' = <<width, height>>
    /\ run' = RunAfter(width, height)
    /\ area' = <<width, height>>
    /\ sameArea' = (area = <<width, height>>)
    /\ last' = "render"
    /\ UNCHANGED <<state, fps>>

\* The key presses event::poll / event::read can deliver; "none" is a timeout.
Keys == {"none", "q", "r", "f", "s", "x"}

\* ------------------------------------------------------------- Args.fps
\* The f64 values of Args.fps the model tells apart: <<n, "zero">> is the
\* whole number n, and <<0, "tiny">> is a positive value so small that
\* 1.0 / fps exceeds u64::MAX seconds (any fps below about 5.4e-20, such as
\* 1e-20). The non-negative values clap can hand to App::new:
FpsValues == {<<n, "zero">> : n \in 0..MaxFps} \cup {<<0, "tiny">>}

FpsZero == <<0, "zero">>

\* self.args.fps >= 1.0
AtLeastOne(f) == f[1] >= 1

\* self.args.fps -= 1.0
SpeedDown(f) == <<f[1] - 1, f[2]>>

\* self.args.fps += 1.0: a tiny fraction is lost in the rounding of the sum.
SpeedUp(f) == <<f[1] + 1, "zero">>

\* Duration::from_secs_f64(timeout) returns: timeout, which is 0.0 for
\* fps = 0.0 and 1.0 / fps otherwise, is finite, not negative and at most
\* u64::MAX seconds. Otherwise from_secs_f64 panics.
TimeoutValid(f) == f = FpsZero \/ AtLeastOne(f)

\* RestartPressed matching every key press.
RestartPressedAnyKey(pressed) == pressed # "none"

\* RestartPressed matching no key press.
RestartPressedNever(pressed) == FALSE

\* The test of handle_events for the restart key.
RestartPressed(pressed) == pressed = "r"

\* handle_events, followed by the loop test of App::run.
handle_events(pressed) ==
    /\ pc = "events"
    /\ IF ~TimeoutValid(fps)
       THEN /\ pc' = "panicked"
            /\ UNCHANGED <<state, fps, grid, diff, size, genSize, outcome, shown, stepped>>
       ELSE /\ state' = IF pressed = "q" THEN "Quit" ELSE state
            /\ IF RestartPressed(pressed)
               THEN /\ grid' = DefaultWidget.grid
                    /\ diff' = DefaultWidget.diff
                    /\ size' = None
                    /\ genSize' = None
                    /\ outcome' = "none"
                    /\ shown' = None
                    /\ stepped' = FALSE
               ELSE UNCHANGED <<grid, diff, size, genSize, outcome, shown, stepped>>
            /\ fps' = IF pressed = "f" /\ AtLeastOne(fps) THEN SpeedDown(fps)
                      ELSE IF pressed = "s" /\ fps[1] < MaxFps THEN SpeedUp(fps)
                      ELSE fps
            /\ pc' = IF is_running' THEN "draw" ELSE "done"
    /\ run' = 0
    /\ UNCHANGED <<area, sameArea>>
    /\ last' = IF fps' # fps THEN "speed" ELSE "handle_events"

\* App::new followed by entering App::run.
Init ==
    /\ state = "Running"
    /\ fps \in FpsValues
    /\ grid = DefaultWidget.grid
    /\ diff = DefaultWidget.diff
    /\ pc = "draw"
    /\ size = None
    /\ genSize = None
    /\ outcome = "none"
    /\ shown = None
    /\ stepped = FALSE
    /\ run = 0
    /\ area = None
    /\ sameArea = FALSE
    /\ last = "new"

Draw == \E v \in Viewports : Render(v[1], v[2])

Events == \E pressed \in Keys : handle_events(pressed)

Next == Draw \/ Events

\* The application: App::run alternating draw and handle_events.
Spec == Init /\ [][Next]_vars

\* The widget on its own: its operations called in any order.
Calculate == \E v \in Viewports : CalculateGame(v[1], v[2])

NextWidget == Calculate \/ PrintDiff \/ Restart

InitWidget == Init /\ fps = FpsZero

SpecWidget == InitWidget /\ [][NextWidget]_vars

\* The evolution step on its own: every grid generate_game can produce for a
\* viewport of at least one cell, then calculate_game with that viewport.
InitStep ==
    /\ state = "Running"
    /\ fps = FpsZero
    /\ \E w \in 1..StepCells, h \in 1..StepCells :
         /\ w * h <= StepCells
         /\ size = <<w, h>>
         /\ genSize = <<w, h>>
         /\ \E rand \in RandomGrids(w, h) : grid = generate_game(w, h, rand)
    /\ diff = None
    /\ pc = "draw"
    /\ outcome = "generated"
    /\ shown = None
    /\ stepped = FALSE
    /\ run = 0
    /\ area = None
    /\ sameArea = FALSE
    /\ last = "calculate_game"

NextStep == CalculateGame(size[1], size[2])

SpecStep == InitStep /\ [][NextStep]_vars

\* The generation of width x height cells whose Alive cells are those at the
\* <<column, row>> pairs of cells: one of the values generate_game can push.
GridOf(cells, width, height) ==
    [i \in 1..(width * height) |->
        IF <<(i - 1) % width, (i - 1) \div width>> \in cells THEN Alive ELSE Dead]

\* Three horizontally adjacent cells in row r, the leftmost in column c.
HorizontalLine(c, r) == {<<c, r>>, <<c + 1, r>>, <<c + 2, r>>}

\* The 2 x 2 block whose top left cell is in column c, row r.
Block(c, r) == {<<c, r>>, <<c + 1, r>>, <<c, r + 1>>, <<c + 1, r + 1>>}

\* The grids holding one pattern and nothing else: a horizontal blinker at
\* any place of a grid of at least 5 x 5, or a block at any place of a grid
\* of at least 2 x 2.
PatternGrids(width, height) ==
         {GridOf(HorizontalLine(c, r), width, height) :
              c \in 0..(width - 3), r \in {y \in 0..(height - 1) : width >= 5 /\ height >= 5}}
    \cup {GridOf(Block(c, r), width, height) : c \in 0..(width - 2), r \in 0..(height - 2)}

\* The evolution of single patterns: generate_game has produced a grid
\* holding one pattern, then calculate_game runs with the same viewport.
InitPattern ==
    /\ state = "Running"
    /\ fps = FpsZero
    /\ \E w \in 2..MaxSide, h \in 2..MaxSide :
         /\ size = <<w, h>>
         /\ genSize = <<w, h>>
         /\ \E rand \in PatternGrids(w, h) : grid = generate_game(w, h, rand)
    /\ diff = None
    /\ pc = "draw"
    /\ outcome = "generated"
    /\ shown = None
    /\ stepped = FALSE
    /\ run = 0
    /\ area = None
    /\ sameArea = FALSE
    /\ last = "calculate_game"

NextPattern == CalculateGame(size[1], size[2])

SpecPattern == InitPattern /\ [][NextPattern]_vars

\* ---------------------------------------------------------------- claims
\* Conway's rule, stated on coordinates: the cell at column x, row y of the
\* width x height generation gen, Dead when (x, y) is outside the grid.
CellAt(gen, x, y, width, height) ==
    IF x \in 0..(width - 1) /\ y \in 0..(height - 1)
    THEN gen[y * width + x + 1]
    ELSE Dead

Adjacent == {d \in {-1, 0, 1} \X {-1, 0, 1} : d # <<0, 0>>}

AliveNeighbours(gen, x, y, width, height) ==
    Cardinality({d \in Adjacent : CellAt(gen, x + d[1], y + d[2], width, height) = Alive})

ConwaySuccessor(c, n) ==
    IF c = Alive
    THEN (IF n = 2 \/ n = 3 THEN Alive ELSE Dead)
    ELSE (IF n = 3 THEN Alive ELSE Dead)

ConwayGeneration(gen, width, height) ==
    [i \in 1..(width * height) |->
        ConwaySuccessor(gen[i],
            AliveNeighbours(gen, (i - 1) % width, (i - 1) \div width, width, height))]

Cur == Unwrap(grid)[1]
Scratch == Unwrap(grid)[2]

\* This step is a call of calculate_game that ran the evolution step.
EvolutionStep == last' = "calculate_game" /\ outcome' = "evolved"

\* C1: one evolution step on a grid of width >= 1 and height >= 1 whose length
\* is width * height sets every cell to the Conway successor of its pre-step
\* state, the neighbours being the 8 adjacent positions of the pre-step
\* generation.
C1_ConwayStep ==
    [][EvolutionStep =>
         /\ size'[1] >= 1 /\ size'[2] >= 1
         /\ Unwrap(grid')[1] = ConwayGeneration(Cur, size'[1], size'[2])]_vars

\* C1 witness: a 3 x 3 grid was evolved whose centre cell was Alive with at
\* least 4 Alive neighbours and is Dead now, and in which a cell was born.
C1_Witness ==
    /\ outcome = "evolved"
    /\ size = <<3, 3>>
    /\ Scratch[5] = Alive
    /\ AliveNeighbours(Scratch, 1, 1, 3, 3) >= 4
    /\ Cur[5] = Dead
    /\ \E i \in 1..9 : Scratch[i] = Dead /\ Cur[i] = Alive

\* The corners of a width x height grid, as 1-based positions.
Corners(width, height) ==
    {1, width, (height - 1) * width + 1, height * width}

LoneAlive(gen, i) == \A j \in 1..Len(gen) : (gen[j] = Alive) <=> (j = i)

\* C2: in an evolution step every neighbour position outside the grid counts
\* as Dead, never as a cell of the opposite edge or of an adjacent row of the
\* buffer; a grid whose only Alive cell is in a corner has that cell Dead
\* after the step.
C2_DeadBorder ==
    [][EvolutionStep =>
         LET width == size'[1]
             height == size'[2]
         IN /\ \A p \in 0..(Len(Cur) - 1) :
                 neighbors(Cur, p % width, p \div width, width, height, width)
                   = AliveNeighbours(Cur, p % width, p \div width, width, height)
            /\ \A i \in Corners(width, height) :
                 LoneAlive(Cur, i) => Unwrap(grid')[1][i] = Dead]_vars

\* C2 witness: a 2 x 3 grid whose only Alive cell was the last cell of the
\* first row (a corner, followed in the buffer by the next row) was evolved,
\* and the cell is Dead.
C2_Witness ==
    /\ outcome = "evolved"
    /\ size = <<2, 3>>
    /\ LoneAlive(Scratch, 2)
    /\ Cur[2] = Dead

\* C3: after an evolution step diff is Some(k), k being the number of
\* positions at which the current generation differs from the scratch
\* (pre-step) generation.
C3_DiffCount ==
    (last = "calculate_game" /\ outcome = "evolved") =>
        diff = Some(Cardinality({i \in 1..Len(Cur) : Cur[i] # Scratch[i]}))

\* C3 witness: a step changed some cells and left others, and recorded a diff
\* of at least 2.
C3_Witness ==
    /\ last = "calculate_game"
    /\ outcome = "evolved"
    /\ IsSome(diff)
    /\ Unwrap(diff) >= 2
    /\ Unwrap(diff) < Len(Cur)

\* C4: whenever a grid exists its current and scratch buffers have the same
\* length, and that length is width * height of the viewport most recently
\* passed to calculate_game.
C4_BufferLengths ==
    IsSome(grid) =>
        /\ Len(Cur) = Len(Scratch)
        /\ size # None
        /\ Len(Cur) = size[1] * size[2]

\* C4 witness: after evolution steps the viewport changed and a frame
\* replaced the grid by one of 4 cells for a 2 x 2 viewport.
C4_Witness ==
    /\ IsSome(grid)
    /\ last = "render"
    /\ stepped
    /\ outcome = "generated"
    /\ size = <<2, 2>>
    /\ Len(Cur) = 4
    /\ Len(Scratch) = 4

\* C5: a frame whose viewport (width, height) differs from the one the
\* existing grid was generated for replaces the grid by a freshly generated
\* one instead of evolving the old cells, also when the product is the same.
C5_RegenerateOnResize ==
    [][(last' = "render" /\ IsSome(grid) /\ size' # genSize) =>
           outcome' = "generated"]_vars

\* C6: with a zero-area viewport (width = 0 or height = 0) no frame panics:
\* the grid is empty and every evolution step on it records a diff of 0.
C6_ZeroAreaNoPanic ==
    (size # None /\ (size[1] = 0 \/ size[2] = 0)) =>
        /\ outcome # "panicked"
        /\ (last = "render" => pc # "panicked")
        /\ IsSome(grid) /\ Cur = <<>>
        /\ (outcome = "evolved" => shown = Some(0))

\* C7: when calculate_game is called twice in a row with the same
\* (width, height) on a grid whose length already equals width * height,
\* neither call runs generate_game, and the second call finds the grid
\* contents as the first call left them: they are what its step snapshots
\* into the scratch buffer.
C7_SizingIdempotent ==
    [][(last' = "calculate_game" /\ run' = 2) =>
         /\ last = "calculate_game"
         /\ run >= 1
         /\ size' = size
         /\ outcome # "generated"
         /\ outcome' # "generated"
         /\ genSize' = genSize
         /\ Len(Unwrap(grid')[1]) = Len(Cur)
         /\ Unwrap(grid')[2] = Cur]_vars

\* C7 witness: the second of two calls in a row with the viewport 1 x 4 on a
\* grid of 4 cells has run and evolved the grid the first call left.
C7_Witness ==
    /\ run = 2
    /\ last = "calculate_game"
    /\ size = <<1, 4>>
    /\ genSize = <<1, 4>>
    /\ outcome = "evolved"
    /\ Len(Cur) = 4
    /\ Cur # Scratch

\* C8 as stated: every frame evolves the automaton by one generation, also
\* the frame that creates or regenerates the grid.
C8_EveryFrameEvolves ==
    [][last' = "render" =>
         /\ outcome' = "evolved"
         /\ IsSome(shown')]_vars

\* C8 as amended: a frame either regenerates the grid or runs the evolution
\* step, never both. The frame that creates or regenerates the grid returns
\* the fresh grid unevolved (current = scratch, no diff displayed); a frame
\* that finds the grid of length width * height advances it by exactly one
\* generation when width >= 1 and panics in chunks_exact_mut when width = 0.
C8_FrameGeneratesOrEvolves ==
    [][last' = "render" =>
         LET width == size'[1]
             height == size'[2]
             sized == IsSome(grid) /\ Len(Cur) = width * height
         IN /\ ~sized =>
                 /\ outcome' = "generated"
                 /\ Len(Unwrap(grid')[1]) = width * height
                 /\ Unwrap(grid')[1] = Unwrap(grid')[2]
                 /\ shown' = diff
                 /\ stepped' = stepped
            /\ (sized /\ width >= 1) =>
                 /\ outcome' = "evolved"
                 /\ Unwrap(grid')[2] = Cur
                 /\ Unwrap(grid')[1] = ConwayGeneration(Cur, width, height)
                 /\ IsSome(shown')
            /\ (sized /\ width = 0) =>
                 /\ outcome' = "panicked"
                 /\ grid' = grid]_vars

\* C8 witness: after earlier evolution steps a frame regenerated a grid of 4
\* cells and left it unevolved, displaying no diff.
C8_Witness ==
    /\ last = "render"
    /\ outcome = "generated"
    /\ stepped
    /\ Len(Cur) = 4
    /\ Cur = Scratch
    /\ \E i \in 1..4 : Cur[i] = Alive /\ ConwayGeneration(Cur, size[1], size[2])[i] = Dead
    /\ shown = None

\* C9: diff is None from creation or restart of the widget until the first
\* evolution step completes; a completed step leaves one value; print_diff
\* displays the value it finds and clears it, so a print_diff that follows a
\* print_diff displays nothing.
C9_DiffProducedAndConsumed ==
    /\ [](~stepped => diff = None)
    /\ [][/\ EvolutionStep => IsSome(diff')
          /\ last' = "print_diff" => (shown' = diff /\ diff' = None)
          /\ (last' = "print_diff" /\ run' = 2) => shown' = None]_vars

\* C9 witness: a step completed, a print_diff displayed its count, and a
\* second print_diff right after it displayed nothing.
C9_Witness ==
    /\ last = "print_diff"
    /\ run = 2
    /\ stepped
    /\ outcome = "evolved"
    /\ shown = None
    /\ diff = None

\* C10: whenever calculate_game regenerates the grid, a diff still pending
\* from a step of the prior generation is discarded: diff is None right
\* after the regeneration.
C10_RegenerationDiscardsDiff ==
    (last = "calculate_game" /\ outcome = "generated") => diff = None

\* C11: handling the key r puts the widget into the empty state (grid = None,
\* diff = None) whatever it held, and App::run goes on to the next frame;
\* that frame, finding no grid, generates a grid of width * height cells for
\* its viewport, whether or not the viewport is the one of the frame before,
\* and evolves nothing: the fresh random cells are all the grid holds.
C11_RestartRegenerates ==
    [][/\ (handle_events("r") /\ pc' # "panicked") =>
             /\ grid' = None
             /\ diff' = None
             /\ state' = state
             /\ pc' = "draw"
       /\ (last' = "render" /\ grid = None) =>
             /\ outcome' = "generated"
             /\ genSize' = area'
             /\ Len(Unwrap(grid')[1]) = area'[1] * area'[2]
             /\ Unwrap(grid')[1] = Unwrap(grid')[2]
             /\ shown' = None
             /\ diff' = None]_vars

\* C11 witness: the key r was handled, and the next frame, with the same
\* 2 x 2 viewport as the frame before the restart, generated a grid again
\* (without a restart a second frame with the same viewport evolves).
C11_Witness ==
    /\ last = "render"
    /\ outcome = "generated"
    /\ ~stepped
    /\ sameArea
    /\ area = <<2, 2>>
    /\ Len(Cur) = 4

\* C12: handling the key f or s changes nothing but fps: grid, diff and state
\* are as before and App::run goes on to the next frame; fps is changed by
\* handle_events alone; and what a frame does is determined by the widget,
\* the viewport and the random cells, whatever fps is, so the later
\* generations are those of a run in which the key was not pressed.
C12_SpeedKeysChangeOnlyFps ==
    [][/\ \A k \in {"f", "s"} :
            (handle_events(k) /\ pc' # "panicked") =>
                /\ grid' = grid
                /\ diff' = diff
                /\ state' = state
                /\ pc' = "draw"
       /\ fps' # fps =>
             /\ last' = "speed"
             /\ <<state', grid', diff', pc'>> = <<state, grid, diff, "draw">>
       /\ last' = "render" =>
             /\ fps' = fps
             /\ \E rand \in RandFor(grid, area'[1], area'[2]) :
                  LET r == calculate_game(Self, area'[1], area'[2], rand)
                  IN /\ outcome' = r.outcome
                     /\ r.outcome \in {"generated", "evolved"} => grid' = r.grid]_vars

\* C12 witness: a key press changed fps while the widget held a grid of 4
\* cells that had been evolved and no longer equals its scratch copy.
C12_Witness ==
    /\ last = "speed"
    /\ stepped
    /\ IsSome(grid)
    /\ Len(Cur) = 4
    /\ Cur # Scratch
    /\ state = "Running"
    /\ pc = "draw"

\* The <<column, row>> pairs of the Alive cells of a generation.
AliveCells(gen, width) ==
    {<<(i - 1) % width, (i - 1) \div width>> : i \in {j \in 1..Len(gen) : gen[j] = Alive}}

\* The three vertically adjacent cells through the centre of HorizontalLine(c, r).
VerticalLine(c, r) == {<<c + 1, r - 1>>, <<c + 1, r>>, <<c + 1, r + 1>>}

\* The rows of a grid, and its rows other than the first and the last.
AllRows(height) == 0..(height - 1)

InnerRows(height) == 1..(height - 2)

\* An evolution step on a grid of at least 5 x 5 turns the horizontal blinker
\* in any of the given rows into the vertical three-cell line through its
\* centre, and that line back into the horizontal blinker.
BlinkerOscillates(rows(_)) ==
    EvolutionStep =>
        LET width == size'[1]
            height == size'[2]
        IN (width >= 5 /\ height >= 5) =>
             \A c \in 0..(width - 3), r \in rows(height) :
                /\ AliveCells(Cur, width) = HorizontalLine(c, r) =>
                      AliveCells(Unwrap(grid')[1], width) = VerticalLine(c, r)
                /\ AliveCells(Cur, width) = VerticalLine(c, r) =>
                      AliveCells(Unwrap(grid')[1], width) = HorizontalLine(c, r)

\* C13 as stated: in a grid of at least 5 x 5 that is Dead except for three
\* horizontally adjacent Alive cells, in whatever row, one step yields exactly
\* the vertical three-cell line through the same centre, and a second step
\* the horizontal line again.
C13_BlinkerAnyRow == [][BlinkerOscillates(AllRows)]_vars

\* C13 as amended: the same for a blinker that is not in the first or the
\* last row of the grid. (In the first or last row one cell of the vertical
\* line lies outside the grid: the step leaves two Alive cells, and the
\* second step none.)
C13_BlinkerInnerRows == [][BlinkerOscillates(InnerRows)]_vars

\* C13 witness: two steps were made on a blinker in the second row against
\* the left border of a 5 x 5 grid: the grid is the horizontal line again
\* and the scratch buffer holds the vertical line.
C13_Witness ==
    /\ run = 2
    /\ outcome = "evolved"
    /\ size = <<5, 5>>
    /\ AliveCells(Cur, 5) = HorizontalLine(0, 1)
    /\ AliveCells(Scratch, 5) = VerticalLine(0, 1)
    /\ diff = Some(4)

\* C14: a grid that is Dead except for one 2 x 2 block of Alive cells,
\* wherever the block lies, is left as it is by an evolution step, and the
\* step records a diff of 0; the grid after the step being the block again,
\* the same holds for every later step with the same viewport.
C14_BlockIsFixed ==
    [][EvolutionStep =>
         LET width == size'[1]
             height == size'[2]
         IN \A c \in 0..(width - 2), r \in 0..(height - 2) :
              AliveCells(Cur, width) = Block(c, r) =>
                 /\ Unwrap(grid')[1] = Cur
                 /\ Unwrap(grid')[2] = Cur
                 /\ diff' = Some(0)]_vars

\* C14 witness: two steps were made on a block in the bottom right corner of
\* a 4 x 3 grid; the grid still holds the block and the diff is 0.
C14_Witness ==
    /\ run = 2
    /\ outcome = "evolved"
    /\ size = <<4, 3>>
    /\ AliveCells(Cur, 4) = Block(2, 1)
    /\ Cur = Scratch
    /\ diff = Some(0)

\* The cells of the grid processed in the reverse of the source's order, from
\* the 0-based flat position p down to 0, every lookup made in cached.
RECURSIVE LoopBackwards(_, _, _, _, _, _)
LoopBackwards(g, cached, d, p, width, height) ==
    IF p < 0
    THEN <<g, d>>
    ELSE LET arm == IF p \in Visited(g, width)
                    THEN ArmAt(cached, p, width, height)
                    ELSE Continue
         IN IF arm = Continue
            THEN LoopBackwards(g, cached, d, p - 1, width, height)
            ELSE LoopBackwards([g EXCEPT ![p + 1] = arm], cached, d + 1, p - 1, width, height)

\* C15: an evolution step leaves in the scratch buffer the generation the
\* step found (the copy made before the loop, not written again), and every
\* lookup of the loop is made in that copy, never in the buffer being
\* written: the grid and the diff after the step are those obtained when
\* the cells are processed in the opposite order with all lookups in the
\* pre-step generation.
C15_LookupsInScratch ==
    [][EvolutionStep =>
         /\ Unwrap(grid')[2] = Cur
         /\ <<Unwrap(grid')[1], Unwrap(diff')>>
              = LoopBackwards(Cur, Cur, 0, Len(Cur) - 1, size'[1], size'[2])]_vars

\* C15 witness: a 3 x 3 grid was evolved, cells changed, and a loop looking
\* its cells up in the buffer being written would have left another grid.
C15_Witness ==
    /\ last = "calculate_game"
    /\ outcome = "evolved"
    /\ size = <<3, 3>>
    /\ Cur # Scratch
    /\ Cur # LoopInPlace(Scratch, Scratch, 0, 0, 3, 3)[1]

\* C16: whenever a frame runs the evolution step with a width of at least 1,
\* every index handed to get_unchecked on the scratch buffer is below the
\* buffer's length, also when the viewport differs from the one the grid was
\* generated for and has the same product; no frame reads outside the buffer.
C16_UncheckedIndexesInBounds ==
    /\ [](outcome # "undefined")
    /\ [][(last' = "render" /\ outcome' # "generated" /\ area'[1] >= 1) =>
            /\ IsSome(grid)
            /\ Len(Scratch) = Len(Cur)
            /\ \A i \in UncheckedIndexes(Cur, area'[1], area'[2]) : i < Len(Cur)]_vars

\* C16 witness: a grid of 4 cells was evolved by a frame whose viewport is
\* not the one the grid was generated for.
C16_Witness ==
    /\ last = "render"
    /\ outcome = "evolved"
    /\ genSize # size
    /\ Len(Cur) = 4
    /\ size[1] * size[2] = 4

\* C17: a handled key q leaves the state Quit; in the state Quit App::run
\* has left its loop, and from then on the state stays Quit and no frame is
\* rendered: grid and diff are never modified again and no generation or
\* evolution step happens.
C17_QuitIsFinal ==
    /\ [](state = "Quit" => pc = "done")
    /\ [][/\ (handle_events("q") /\ pc' # "panicked") => state' = "Quit"
          /\ state = "Quit" =>
                /\ state' = "Quit"
                /\ last' = last
                /\ <<grid', diff', outcome', shown', size'>> = <<grid, diff, outcome, shown, size>>]_vars

\* C17 witness: the key q was handled after evolution steps; the widget
\* holds the evolved grid of 4 cells and the loop has ended.
C17_Witness ==
    /\ state = "Quit"
    /\ pc = "done"
    /\ stepped
    /\ IsSome(grid)
    /\ Len(Cur) = 4
    /\ Cur # Scratch

\* C18: a frame that paints, in an area of width w and height h, reads for
\* the column offset xi and the row offset yi the cell grid[yi * w + xi];
\* calculate_game has left a grid of exactly w * h cells, so every index
\* read is inside the grid and the painting loop does not panic.
C18_PaintRowMajor ==
    [][(last' = "render" /\ outcome' \in {"generated", "evolved"}) =>
         LET w == area'[1]
             h == area'[2]
             painted == Unwrap(grid')[1]
         IN /\ Len(painted) = w * h
            /\ pc' = "events"
            /\ \A xi \in 0..(w - 1), yi \in 0..(h - 1) :
                 /\ PaintIndex(xi, yi, w) = yi * w + xi
                 /\ PaintIndex(xi, yi, w) < Len(painted)
                 /\ GetUnchecked(painted, PaintIndex(xi, yi, w))
                      = CellAt(painted, xi, yi, w, h)]_vars

\* C18 witness: after evolution steps a frame generated and painted a 2 x 2
\* grid in which the cell at column 1 of row 0 differs from the cell at
\* column 0 of row 1.
C18_Witness ==
    /\ last = "render"
    /\ pc = "events"
    /\ stepped
    /\ outcome = "generated"
    /\ area = <<2, 2>>
    /\ Len(Cur) = 4
    /\ Cur[2] # Cur[3]

\* C19: diff is None whenever a frame begins; a frame that completes
\* displays a diff if and only if its calculate_game ran the evolution step,
\* and the number displayed is the number of cells that step changed; a
\* frame that creates or regenerates the grid displays nothing; and every
\* completed frame leaves diff None.
C19_DiffShownInFrameOfStep ==
    /\ [](pc = "draw" => diff = None)
    /\ [][(last' = "render" /\ pc' = "events") =>
            /\ IsSome(shown') <=> outcome' = "evolved"
            /\ outcome' = "generated" => shown' = None
            /\ outcome' = "evolved" =>
                  shown' = Some(Cardinality({i \in 1..Len(Cur) :
                                               Unwrap(grid')[1][i] # Cur[i]}))
            /\ diff' = None]_vars

\* C19 witness: a frame evolved a grid of 4 cells generated for its
\* viewport, 2 cells changed, the frame displayed 2 and left diff None.
C19_Witness ==
    /\ last = "render"
    /\ pc = "events"
    /\ outcome = "evolved"
    /\ Len(Cur) = 4
    /\ Cardinality({i \in 1..4 : Cur[i] # Scratch[i]}) = 2
    /\ shown = Some(2)
    /\ diff = None
    /\ genSize = size

\* C20: from a non-negative fps, whatever keys f and s are pressed, fps is
\* never negative, and handle_events always obtains a valid non-negative
\* duration from its timeout (0 when fps = 0, otherwise 1 / fps):
\* Duration::from_secs_f64 never panics.
C20_TimeoutAlwaysValid ==
    /\ fps[1] >= 0
    /\ ~(pc = "panicked" /\ last \in {"handle_events", "speed"})

====
